---------------------------- MODULE Spec2Model ----------------------------
(* Model of pythonx/cm_sources/r.py: the R completion source for Neovim    *)
(* Completion Manager.  Python strings are modelled as sequences of       *)
(* one-character strings, Python lists as sequences, Python dicts (the    *)
(* ncm matches) as records; the identity of the dicts shared between the  *)
(* Source's lists is kept by storing references (list name + index).      *)
EXTENDS Integers, Sequences, FiniteSets, TLC

(***************************************************************************)
(* Bounds of the model.                                                    *)
(***************************************************************************)
MaxRequests == 2
MaxArgs == 3
MaxLines == 2

(***************************************************************************)
(* Characters and string helpers (Python str methods).                     *)
(***************************************************************************)
\* the control bytes of the omni lists: \x06, \x07, \x08 (and \t)
SEP6 == "<06>"
SEP7 == "<07>"
SEP8 == "<08>"
TAB == "\t"
NL == "\n"
SP == " "

Whitespace == {SP, TAB, NL}
Digits == {"0", "1", "2", "3", "4", "5", "6", "7", "8", "9"}
Letters == {"a", "b", "d", "f", "g", "h", "i", "k", "l", "m", "p", "q", "r",
            "x", "y", "A", "G", "N", "O", "R", "S"}
\* \w of Python's re
WordChars == Letters \cup Digits \cup {"_"}

IsPrefix(p, s) == Len(p) <= Len(s) /\ SubSeq(s, 1, Len(p)) = p

\* sub in s
Contains(s, sub) ==
    \E i \in 1..(Len(s) - Len(sub) + 1) : SubSeq(s, i, i + Len(sub) - 1) = sub

HasChar(s, c) == \E i \in 1..Len(s) : s[i] = c

RECURSIVE Replace(_, _)
\* s.replace(old, ''), old non-empty: every occurrence, left to right
Replace(s, old) ==
    IF Len(s) < Len(old) THEN s
    ELSE IF IsPrefix(old, s) THEN Replace(SubSeq(s, Len(old) + 1, Len(s)), old)
    ELSE <<s[1]>> \o Replace(Tail(s), old)

RECURSIVE Split(_, _)
\* re.split(c, s) for a one-character pattern c
Split(s, c) ==
    IF ~HasChar(s, c) THEN <<s>>
    ELSE LET i == CHOOSE j \in 1..Len(s) : s[j] = c /\ \A k \in 1..(j-1) : s[k] # c
         IN <<SubSeq(s, 1, i - 1)>> \o Split(SubSeq(s, i + 1, Len(s)), c)

RECURSIVE LStrip(_)
LStrip(s) == IF s # <<>> /\ s[1] \in Whitespace THEN LStrip(Tail(s)) ELSE s

RECURSIVE RStrip(_)
RStrip(s) ==
    IF s # <<>> /\ s[Len(s)] \in Whitespace THEN RStrip(SubSeq(s, 1, Len(s) - 1)) ELSE s

\* s.strip()
Strip(s) == RStrip(LStrip(s))

RECURSIVE Join(_, _)
\* sep.join(parts)
Join(parts, sep) ==
    IF parts = <<>> THEN <<>>
    ELSE IF Len(parts) = 1 THEN parts[1]
    ELSE parts[1] \o sep \o Join(Tail(parts), sep)

RECURSIVE Spaces(_)
Spaces(n) == IF n <= 0 THEN <<>> ELSE <<SP>> \o Spaces(n - 1)

\* '{:10}'.format(s[0:10])
Pad10(s) ==
    LET t == SubSeq(s, 1, IF Len(s) < 10 THEN Len(s) ELSE 10)
    IN t \o Spaces(10 - Len(t))

DigitChar(d) == CASE d = 0 -> "0" [] d = 1 -> "1" [] d = 2 -> "2" [] d = 3 -> "3"
                  [] d = 4 -> "4" [] d = 5 -> "5" [] d = 6 -> "6" [] d = 7 -> "7"
                  [] d = 8 -> "8" [] d = 9 -> "9"

\* str(n) for 0 <= n < 100
Str(n) == IF n < 10 THEN <<DigitChar(n)>> ELSE <<DigitChar(n \div 10), DigitChar(n % 10)>>

ToSet(s) == {s[i] : i \in 1..Len(s)}

\* string literals of the source
s_function == <<"f", "u", "n", "c", "t", "i", "o", "n">>
s_package == <<"p", "a", "c", "k", "a", "g", "e">>
s_argument == <<"a", "r", "g", "u", "m", "e", "n", "t">>
s_dataframe == <<"d", "a", "t", "a", ".", "f", "r", "a", "m", "e">>
s_tbl_df == <<"t", "b", "l", "_", "d", "f">>
s_param == <<"p", "a", "r", "a", "m">>
s_library == <<"l", "i", "b", "r", "a", "r", "y">>
s_require == <<"r", "e", "q", "u", "i", "r", "e">>
NO_ARGS == <<"N", "O", "_", "A", "R", "G", "S">>
DOTS == <<".", ".", ".">>
PIPE_OP == <<"%", ">", "%">>

(***************************************************************************)
(* make_func_snippet, get_func_args, create_match, to_matches              *)
(***************************************************************************)
\* mand_args = [a for a in args if '=' not in a]
mand_args(args) == SelectSeq(args, LAMBDA a : ~HasChar(a, "="))

RECURSIVE snippet_fields(_, _)
\* the for loop of make_func_snippet over enumerate(mand_args), from index
\* numarg (0-based) on: the text appended to the snippet.  `arg in ('...')`
\* is a substring test against the string '...'.
snippet_fields(mand, numarg) ==
    IF numarg >= Len(mand) THEN <<>>
    ELSE LET arg == mand[numarg + 1]
         IN IF Contains(DOTS, arg) /\ numarg > 0
            THEN snippet_fields(mand, numarg + 1)
            ELSE <<"$", "{">> \o Str(numarg + 1) \o <<":">> \o arg \o <<"}", ",", SP>>
                 \o snippet_fields(mand, numarg + 1)

\* make_func_snippet without the early return for NO_ARGS
make_func_snippet_plain(func, args) ==
    LET filled == func \o <<"(">> \o snippet_fields(mand_args(args), 0)
        closed == IF Len(args) > 1
                  THEN SubSeq(filled, 1, Len(filled) - 2)
                  ELSE filled \o <<"$", "1">>
    IN closed \o <<")">>

make_func_snippet(func, args) ==
    LET snippet == func \o <<"(">>
    IN IF args[1] = NO_ARGS THEN snippet \o <<")">>
       ELSE LET filled == snippet \o snippet_fields(mand_args(args), 0)
                closed == IF Len(args) > 1
                          THEN SubSeq(filled, 1, Len(filled) - 2)
                          ELSE filled \o <<"$", "1">>
            IN closed \o <<")">>

\* args of a non-empty info blob
get_func_args(info) ==
    IF info = <<>> THEN <<>>
    ELSE LET splits == Split(info, SEP8)
             args == Split(splits[1], TAB)
         IN [i \in 1..Len(args) |->
                LET parts == Split(args[i], SEP7) IN Join(parts, <<SP, "=", SP>>)]

\* a match dict; an absent 'pkg' or 'snippet' key is the empty string (the
\* code never stores an empty one), an absent 'args' key is hasargs = FALSE
Match(word, menu, struct, pkg, snippet, hasargs, args) ==
    [word |-> word, menu |-> menu, struct |-> struct, pkg |-> pkg,
     snippet |-> snippet, hasargs |-> hasargs, args |-> args]

\* create_match for struct = 'argument' (lines 76-88 override word, menu, snippet)
create_arg_match(word, pkg) ==
    LET raw == Split(word, "=")
        word_parts == [i \in 1..Len(raw) |-> Strip(raw[i])]
        lhs == word_parts[1]
        rhs == IF Len(word_parts) = 2 THEN word_parts[2] ELSE <<>>
        menu == Pad10(s_param) \o (IF rhs # <<>> THEN <<SP, "=", SP>> \o rhs ELSE <<>>)
        snippet == IF rhs # <<>>
                   THEN lhs \o <<SP, "=", SP, "$", "{", "1", ":">> \o rhs \o <<"}">>
                   ELSE lhs \o <<SP, "=", SP, "$", "1">>
    IN Match(lhs, menu, s_argument, pkg, snippet, FALSE, <<>>)

\* create_match: the empty sequence is None, else a one-element sequence
create_match(word, struct, pkg, info) ==
    IF word = <<>> /\ struct = <<>> THEN <<>>
    ELSE IF struct = s_argument THEN <<create_arg_match(word, pkg)>>
    ELSE IF struct = s_function /\ info # <<>> THEN
        LET args == get_func_args(info)
            pkg_name == <<"{">> \o pkg \o <<"}">>
            menu == Pad10(pkg_name) \o <<SP>> \o word \o <<"(">>
                    \o Join(args, <<",", SP>>) \o <<")">>
            kept == SelectSeq(args, LAMBDA a : a # NO_ARGS /\ a # DOTS)
            margs == [i \in 1..Len(kept) |-> create_arg_match(kept[i], <<>>)]
        IN <<Match(word, menu, struct, pkg, make_func_snippet(word, args), TRUE, margs)>>
    ELSE
        LET snippet == IF struct = s_function THEN word \o <<"(", "$", "1", ")">>
                       ELSE IF struct = s_package THEN word \o <<":", ":", "$", "1">>
                       ELSE IF struct \in {s_dataframe, s_tbl_df} THEN word \o <<"$", "$", "1">>
                       ELSE <<>>
        IN <<Match(word, Pad10(struct), struct, pkg, snippet, FALSE, <<>>)>>

\* the body of the loop of to_matches for one line: ok = FALSE is the
\* IndexError of parts[1], parts[3] or parts[4]
parse_line(line) ==
    LET parts == Split(line, SEP6)
    IN IF Len(parts) < 5 THEN [ok |-> FALSE, match |-> <<>>]
       ELSE [ok |-> TRUE, match |-> create_match(parts[1], parts[2], parts[4], parts[5])]

RECURSIVE to_matches(_)
\* to_matches(lines): [ok, list]; ok = FALSE when a line raised
to_matches(lines) ==
    IF lines = <<>> THEN [ok |-> TRUE, list |-> <<>>]
    ELSE LET first == parse_line(lines[1])
             rest == to_matches(Tail(lines))
         IN IF ~first.ok \/ ~rest.ok THEN [ok |-> FALSE, list |-> <<>>]
            ELSE [ok |-> TRUE, list |-> first.match \o rest.list]

(***************************************************************************)
(* Context detection: the regular expressions of Source and get_pipe       *)
(***************************************************************************)
Min(S) == CHOOSE x \in S : \A y \in S : x <= y

\* character classes of R_WORD / R_PIPE ([\w\$_\.]) and of R_FUNC ([^\(^\s])
IdentChars == WordChars \cup {"$", "."}
FuncChars(c) == c \notin ({"(", "^"} \cup Whitespace)

\* re.search(R_WORD, typed): the longest suffix of typed made of IdentChars
R_WORD(typed) ==
    LET starts == {i \in 1..(Len(typed) + 1) : \A k \in i..Len(typed) : typed[k] \in IdentChars}
    IN SubSeq(typed, Min(starts), Len(typed))

\* re.search('["\']' + word + '$', typed).  word is not escaped: a '$' of
\* word is the end anchor, so a word with '$' never matches (typed ends with
\* word); otherwise the pattern has the length of word plus one and matches
\* iff the character before word is a quote ('.' matches itself).
isinquot(typed, word) ==
    /\ ~HasChar(word, "$")
    /\ Len(typed) > Len(word)
    /\ typed[Len(typed) - Len(word)] \in {"\"", "'"}

\* re.search(R_FUNC, typed).group(1), '' when there is no match: the run of
\* FuncChars before the first '(' that follows such a character
R_FUNC(typed) ==
    LET parens == {j \in 2..Len(typed) : typed[j] = "(" /\ FuncChars(typed[j - 1])}
    IN IF parens = {} THEN <<>>
       ELSE LET j == Min(parens)
                starts == {i \in 1..(j - 1) : \A k \in i..(j - 1) : FuncChars(typed[k])}
            IN SubSeq(typed, Min(starts), j - 1)

PipeAt(line, i) == i + 2 <= Len(line) /\ SubSeq(line, i, i + 2) = PIPE_OP

\* end of the run of IdentChars that starts at s
RunEnd(line, s) ==
    Min({e \in s..Len(line) : e = Len(line) \/ line[e + 1] \notin IdentChars})

\* the starts of the matches of R_PIPE in line
PipeStarts(line) ==
    {s \in 1..Len(line) :
        /\ line[s] \in IdentChars
        /\ (s = 1 \/ line[s - 1] \notin IdentChars)
        /\ LET e == RunEnd(line, s)
           IN \/ PipeAt(line, e + 1)
              \/ (e + 1 <= Len(line) /\ line[e + 1] \in Whitespace /\ PipeAt(line, e + 2))}

\* re.search(R_PIPE, line): [found, group1]
R_PIPE(line) ==
    IF PipeStarts(line) = {} THEN [found |-> FALSE, group |-> <<>>]
    ELSE LET s == Min(PipeStarts(line))
         IN [found |-> TRUE, group |-> SubSeq(line, s, RunEnd(line, s))]

\* re.match(R_LINE, line) is not None
R_LINE(line) ==
    \E i \in 1..Len(line) :
        /\ \A k \in 1..i : line[k] # "("
        /\ \/ (i + 1 <= Len(line) /\ line[i + 1] = "=")
           \/ (i + 2 <= Len(line) /\ line[i + 1] = "<" /\ line[i + 2] = "-")

RECURSIVE pipe_scan(_, _, _, _, _)
\* the loop of get_pipe from buffer index numl (0-based) downward; the empty
\* string is None (R_PIPE never captures an empty identifier)
pipe_scan(buffer, numline, numcol, numl, no_pipe) ==
    IF numl < 0 THEN <<>>
    ELSE LET raw == buffer[numl + 1]
             line == IF numl = numline
                     THEN SubSeq(raw, 1, IF numcol < Len(raw) THEN numcol ELSE Len(raw))
                     ELSE raw
             has_pipe == R_PIPE(line)
         IN IF Contains(line, PIPE_OP)
            THEN IF has_pipe.found THEN has_pipe.group
                 ELSE pipe_scan(buffer, numline, numcol, numl - 1, no_pipe)
            ELSE IF R_LINE(line) \/ no_pipe + 1 = 2 THEN <<>>
                 ELSE pipe_scan(buffer, numline, numcol, numl - 1, no_pipe + 1)

get_pipe(buffer, numline, numcol) == pipe_scan(buffer, numline, numcol, numline - 1, 0)

(***************************************************************************)
(* The state of a Source and of its collaborators                          *)
(***************************************************************************)
VARIABLES
    pkg_loaded,     \* self._pkg_loaded: list of package names
    pkg_installed,  \* self._pkg_installed: list of package matches
    pkg_matches,    \* self._pkg_matches: the dicts of every package listing
    fnc_matches,    \* self._fnc_matches: references to dicts of pkg_matches
                    \* and pkg_installed
    obj_matches,    \* self._obj_matches: the dicts of the last object listing
    r_packages,     \* the loaded_pkgs_ file written by the R session
    r_globalenv,    \* the GlobalEnvList_ file built by the R session
    ctx,            \* the context of the last completion request
    log,            \* what the last request logged (LOGGER.info / LOGGER.warn)
    result,         \* what the last request handed to self.complete
    nreq,           \* number of completion requests so far
    snip,           \* one call of make_func_snippet: arguments and result
    parse,          \* one call of to_matches: lines, loop position, cm_list
    scan,           \* one call of get_pipe: buffer, cursor, loop position, result
    filt            \* one call of filter_matches: arguments, list after it, result

vars == <<pkg_loaded, pkg_installed, pkg_matches, fnc_matches, obj_matches,
          r_packages, r_globalenv, ctx, log, result, nreq, snip, parse, scan, filt>>

source_vars == <<pkg_loaded, pkg_installed, pkg_matches, fnc_matches, obj_matches,
                 r_packages, r_globalenv, ctx, log, result, nreq>>

(***************************************************************************)
(* The files and buffers the model runs on                                 *)
(***************************************************************************)
w_p == <<"p">>
w_q == <<"q">>
w_d == <<"d">>
w_f == <<"f">>
w_g == <<"g">>
w_h == <<"h">>
s_numeric == <<"n", "u", "m", "e", "r", "i", "c">>
s_globalenv == <<".", "G", "l", "o", "b", "a", "l", "E", "n", "v">>

\* a record of an omni list as readlines() returns it
Line(word, struct, pkg, info) ==
    word \o <<SEP6>> \o struct \o <<SEP6, SEP6>> \o pkg \o <<SEP6>> \o info \o <<NL>>

\* the files of g:rplugin_compldir
CompDir ==
    {[name |-> <<"o", "m", "n", "i", "l", "s", "_", "p", "_", "1">>,
      lines |-> <<Line(w_f, s_function, w_p, <<"x", TAB, "y", SEP7, "1", SEP8, "d">>),
                  Line(w_g, s_function, w_p, NO_ARGS)>>],
     [name |-> <<"o", "m", "n", "i", "l", "s", "_", "q", "_", "1">>,
      lines |-> <<Line(w_h, s_function, w_q, <<>>),
                  Line(<<"q", "d">>, s_dataframe, w_q, <<>>)>>],
     [name |-> <<"R", "E", "A", "D", "M", "E">>, lines |-> <<>>]}

\* the orders in which listdir can return them
ListDirs ==
    {s \in [1..Cardinality(CompDir) -> CompDir] : \A i, j \in DOMAIN s : i # j => s[i] # s[j]}

File(lines) == [present |-> TRUE, lines |-> lines]
Missing == [present |-> FALSE, lines |-> <<>>]

\* what the R session can have written as the loaded-packages file
PackagesFiles ==
    {Missing, File(<<>>), File(<<w_p \o <<NL>>>>), File(<<w_p \o <<NL>>, w_p \o <<NL>>>>),
     File(<<w_p \o <<NL>>, w_q \o <<NL>>>>), File(<<w_q \o <<NL>>, w_p \o <<NL>>>>)}

\* what the R session can have built as the object listing
GlobalEnvFiles ==
    {Missing,
     File(<<>>),
     File(<<Line(w_d, s_dataframe, s_globalenv, <<>>),
            Line(<<"d", "$", "x">>, s_numeric, s_globalenv, <<>>)>>),
     File(<<Line(w_d, s_dataframe, s_globalenv, <<>>),
            Line(<<"d", "$", "x">>, s_numeric, s_globalenv, <<>>),
            Line(w_g, s_function, s_globalenv, <<"a">>)>>)}

Ctx(typed, buffer, lnum) == [typed |-> typed, buffer |-> buffer, lnum |-> lnum,
                             col |-> Len(typed) + 1]
NoCtx == Ctx(<<>>, <<>>, 0)

l_pipe == <<"d", SP, "%", ">", "%">>
t_call(f) == f \o <<"(">>

\* the completion requests of the model: typed text, buffer, cursor line
Contexts ==
    {Ctx(w_f, <<w_f>>, 1),                                   \* bare word
     Ctx(w_p, <<w_p>>, 1),                                   \* bare word
     Ctx(<<>>, <<<<>>>>, 1),                                 \* nothing typed
     Ctx(<<"d", "$">>, <<<<"d", "$">>>>, 1),                 \* field access
     Ctx(<<"\"", "p">>, <<<<"\"", "p">>>>, 1),               \* inside quotes
     Ctx(t_call(s_library), <<t_call(s_library)>>, 1),       \* package loading
     Ctx(t_call(w_f), <<t_call(w_f)>>, 1),                   \* inside a call
     Ctx(t_call(w_g), <<t_call(w_g)>>, 1),
     Ctx(t_call(w_h), <<t_call(w_h)>>, 1),
     Ctx(w_f, <<l_pipe, w_f>>, 2),                           \* bare word in a pipe
     Ctx(<<>>, <<l_pipe, <<>>>>, 2),                         \* nothing typed in a pipe
     Ctx(t_call(w_f), <<l_pipe, t_call(w_f)>>, 2)}           \* call in a pipe

(***************************************************************************)
(* The filters.  A filter over a list of dicts returns the indices of the  *)
(* dicts it keeps, so that the caller keeps their identity.                *)
(***************************************************************************)
Indices(n) == [i \in 1..n |-> i]
Pick(list, keep) == [k \in 1..Len(keep) |-> list[keep[k]]]

\* the '' of filter_matches_arg's [''] (no dict has an empty word and struct)
EmptyStr == Match(<<>>, <<>>, <<>>, <<>>, <<>>, FALSE, <<>>)

\* filter_matches_arg for a non-empty func: err is the KeyError of m['args'],
\* found says whether args is non-empty, idx is the dict of args[0]
filter_matches_arg(ncm_matches, func) ==
    LET named == SelectSeq(Indices(Len(ncm_matches)), LAMBDA i : ncm_matches[i].word = func)
    IN IF \E k \in 1..Len(named) : ~ncm_matches[named[k]].hasargs
       THEN [err |-> "KeyError", found |-> FALSE, idx |-> 0]
       ELSE IF named # <<>> THEN [err |-> "", found |-> TRUE, idx |-> named[1]]
       ELSE [err |-> "", found |-> FALSE, idx |-> 0]

\* filter_matches_struct for a non-empty struct
filter_matches_struct(ncm_matches, struct) ==
    SelectSeq(Indices(Len(ncm_matches)), LAMBDA i : ncm_matches[i].struct = struct)

\* filter_matches_pkgs: err is the KeyError of d['pkg']
filter_matches_pkgs(ncm_matches, pkg) ==
    IF pkg = <<>> THEN [err |-> "", keep |-> Indices(Len(ncm_matches))]
    ELSE IF \E i \in 1..Len(ncm_matches) : ncm_matches[i].pkg = <<>>
    THEN [err |-> "KeyError", keep |-> <<>>]
    ELSE [err |-> "",
          keep |-> SelectSeq(Indices(Len(ncm_matches)),
                       LAMBDA i : \E p \in ToSet(pkg) : Contains(ncm_matches[i].pkg, p))]

\* filter_matches removing typed from the kept words whatever rm_typed says
filter_matches_rm(ncm_matches, typed, hide, rm_typed) ==
    LET Kept(m) == /\ typed # <<>>
                   /\ IsPrefix(typed, m.word)
                   /\ ~(hide # <<>> /\ Contains(m.word, hide))
    IN [keep |-> SelectSeq(Indices(Len(ncm_matches)), LAMBDA i : Kept(ncm_matches[i])),
        list |-> [i \in 1..Len(ncm_matches) |->
                     IF Kept(ncm_matches[i])
                     THEN [ncm_matches[i] EXCEPT !.word = Replace(@, typed)]
                     ELSE ncm_matches[i]]]

\* filter_matches: keep is filtered_list, list is ncm_matches after the call
\* (rm_typed changes the dicts of ncm_matches themselves)
filter_matches(ncm_matches, typed, hide, rm_typed) ==
    LET Kept(m) == /\ typed # <<>>
                   /\ IsPrefix(typed, m.word)
                   /\ ~(hide # <<>> /\ Contains(m.word, hide))
    IN [keep |-> SelectSeq(Indices(Len(ncm_matches)), LAMBDA i : Kept(ncm_matches[i])),
        list |-> [i \in 1..Len(ncm_matches) |->
                     IF Kept(ncm_matches[i]) /\ rm_typed
                     THEN [ncm_matches[i] EXCEPT !.word = Replace(@, typed)]
                     ELSE ncm_matches[i]]]

(***************************************************************************)
(* The methods of Source                                                   *)
(***************************************************************************)
InstalledRefs == [j \in 1..Len(pkg_installed) |-> [src |-> "inst", i |-> j]]
Deref(pm, ref) == IF ref.src = "pkg" THEN pm[ref.i] ELSE pkg_installed[ref.i]
StripAll(lines) == [i \in 1..Len(lines) |-> Strip(lines[i])]

\* update_loaded_pkgs comparing the lists instead of the sets
update_loaded_pkgs_lists(old_pkgs, file) ==
    LET pkgs == IF file.present THEN StripAll(file.lines) ELSE old_pkgs
    IN [pkg_loaded |-> pkgs,
        warned |-> ~file.present,
        changed |-> old_pkgs # pkgs]

\* update_loaded_pkgs forgetting the recorded packages when the file is missing
update_loaded_pkgs_reset(old_pkgs, file) ==
    LET pkgs == IF file.present THEN StripAll(file.lines) ELSE <<>>
    IN [pkg_loaded |-> pkgs,
        warned |-> ~file.present,
        changed |-> ToSet(old_pkgs) # ToSet(pkgs)]

\* update_loaded_pkgs: the new self._pkg_loaded and the return value
update_loaded_pkgs(old_pkgs, file) ==
    LET pkgs == IF file.present THEN StripAll(file.lines) ELSE old_pkgs
    IN [pkg_loaded |-> pkgs,
        warned |-> ~file.present,
        changed |-> ToSet(old_pkgs) # ToSet(pkgs)]

\* get_all_obj_matches: the new self._obj_matches, or the exception of open
\* or of to_matches
get_all_obj_matches(om) ==
    IF ~r_globalenv.present THEN [err |-> "FileNotFoundError", list |-> om]
    ELSE LET t == to_matches(StripAll(r_globalenv.lines))
         IN IF t.ok THEN [err |-> "", list |-> t.list]
            ELSE [err |-> "IndexError", list |-> om]

\* evaluates value once and hands it to Body (a local variable of the code)
Bind(value, Body(_)) == CHOOSE r \in {Body(v) : v \in {value}} : TRUE

\* update_func_matches over the dicts pm of self._pkg_matches
update_func_matches(pm) ==
    Bind(update_loaded_pkgs(pkg_loaded, r_packages), LAMBDA u :
        IF ~u.changed
        THEN [err |-> "", pkg_loaded |-> u.pkg_loaded, fnc_matches |-> fnc_matches,
              updated |-> FALSE, warned |-> u.warned]
        ELSE Bind(filter_matches_pkgs(pm, u.pkg_loaded), LAMBDA funcs :
            IF funcs.err # ""
            THEN [err |-> funcs.err, pkg_loaded |-> u.pkg_loaded,
                  fnc_matches |-> fnc_matches, updated |-> TRUE, warned |-> u.warned]
            ELSE Bind(filter_matches_struct(Pick(pm, funcs.keep), s_function), LAMBDA fkeep :
                [err |-> "", pkg_loaded |-> u.pkg_loaded,
                 fnc_matches |-> [k \in 1..Len(fkeep) |->
                                     [src |-> "pkg", i |-> funcs.keep[fkeep[k]]]],
                 updated |-> TRUE, warned |-> u.warned])))

\* the state and the outcome of a call that made no refresh
Outcome(err, matches, pm, om) ==
    [err |-> err, matches |-> matches, pkg_matches |-> pm, obj_matches |-> om,
     pkg_loaded |-> pkg_loaded, fnc_matches |-> fnc_matches,
     refreshed |-> FALSE, updated |-> FALSE, warned |-> FALSE]

\* lines 360-370 of get_matches: the filter of the object matches
filter_objects(objs, word, pipe) ==
    IF pipe # <<>> THEN filter_matches(objs, pipe \o <<"$">>, <<>>, TRUE)
    ELSE IF HasChar(word, "$") THEN filter_matches(objs, word, <<>>, TRUE)
    ELSE filter_matches(objs, word, <<"$">>, FALSE)

\* get_matches(word, pipe) with self._pkg_matches = pm and self._obj_matches =
\* om on entry; pipe = <<>> is None
get_matches(pm, om, word, pipe) ==
    Bind(get_all_obj_matches(om), LAMBDA o :
        IF o.err # "" THEN Outcome(o.err, <<>>, pm, o.list)
        ELSE Bind(filter_objects(o.list, word, pipe), LAMBDA f :
             Bind(update_func_matches(pm), LAMBDA u :
                IF u.err # ""
                THEN [err |-> u.err, matches |-> <<>>, pkg_matches |-> pm,
                      obj_matches |-> f.list, pkg_loaded |-> u.pkg_loaded,
                      fnc_matches |-> u.fnc_matches, refreshed |-> TRUE,
                      updated |-> u.updated, warned |-> u.warned]
                ELSE Bind(u.fnc_matches \o InstalledRefs, LAMBDA func_m :
                     Bind([k \in 1..Len(func_m) |-> Deref(pm, func_m[k])], LAMBDA vals :
                        [err |-> "",
                         matches |-> Pick(f.list, f.keep)
                                     \o Pick(vals, filter_matches(vals, word, <<>>, FALSE).keep),
                         pkg_matches |-> pm, obj_matches |-> f.list,
                         pkg_loaded |-> u.pkg_loaded, fnc_matches |-> func_m,
                         refreshed |-> TRUE, updated |-> u.updated,
                         warned |-> u.warned])))))

\* one round of the loop of get_func_matches over a source: args after
\* args.extend(args), and the source after it
lookup_round(source, func) ==
    Bind(filter_matches_arg(source, func), LAMBDA l :
        IF l.err # "" THEN [err |-> l.err, args |-> <<>>, list |-> source]
        ELSE IF l.found
        THEN [err |-> "", args |-> source[l.idx].args \o source[l.idx].args,
              list |-> [source EXCEPT ![l.idx].args = @ \o @]]
        ELSE [err |-> "", args |-> <<EmptyStr, EmptyStr>>, list |-> source])

\* self._pkg_matches after the dicts of self._fnc_matches became those of fvals
write_back(fvals) ==
    [i \in 1..Len(pkg_matches) |->
        IF \E k \in 1..Len(fnc_matches) : fnc_matches[k] = [src |-> "pkg", i |-> i]
        THEN fvals[CHOOSE k \in 1..Len(fnc_matches) : fnc_matches[k] = [src |-> "pkg", i |-> i]]
        ELSE pkg_matches[i]]

\* the loop of get_func_matches over [self._fnc_matches, self._obj_matches]:
\* args after the loop, self._pkg_matches and self._obj_matches after it
arg_lookup(func) ==
    Bind(lookup_round([k \in 1..Len(fnc_matches) |-> Deref(pkg_matches, fnc_matches[k])],
                      func), LAMBDA r1 :
        IF r1.err # "" \/ Len(r1.args) > 1
        THEN [err |-> r1.err, args |-> r1.args, pm |-> write_back(r1.list),
              om |-> obj_matches]
        ELSE Bind(lookup_round(obj_matches, func), LAMBDA r2 :
                [err |-> r2.err, args |-> r2.args, pm |-> write_back(r1.list),
                 om |-> r2.list]))

get_func_matches(func, word, pipe) ==
    IF func \in {s_library, s_require}
    THEN Outcome("", pkg_installed, pkg_matches, obj_matches)
    ELSE Bind(arg_lookup(func), LAMBDA a :
        IF a.err # "" THEN Outcome(a.err, <<>>, a.pm, a.om)
        ELSE Bind(get_matches(a.pm, a.om, word, pipe), LAMBDA g :
            IF g.err # "" THEN g
            ELSE [g EXCEPT !.matches = IF pipe # <<>> THEN g.matches \o a.args
                                       ELSE a.args \o g.matches]))

NoLog == [logged |-> FALSE, word |-> <<>>, func |-> <<>>, pipe |-> <<>>,
          refreshed |-> FALSE, updated |-> FALSE, warned |-> FALSE]

\* cm_refresh(info, ctx)
cm_refresh(c) ==
    \E word \in {R_WORD(c.typed)}, func \in {R_FUNC(c.typed)},
       pipe \in {get_pipe(c.buffer, c.lnum, c.col)} :
    \E r \in {IF func # <<>> THEN get_func_matches(func, word, pipe)
               ELSE IF word = <<>> THEN Outcome("return", <<>>, pkg_matches, obj_matches)
               ELSE get_matches(pkg_matches, obj_matches, word, <<>>)} :
       /\ nreq < MaxRequests
       /\ nreq' = nreq + 1
       /\ ctx' = c
       /\ IF isinquot(c.typed, word)
          THEN /\ log' = NoLog
               /\ result' = [kind |-> "return", list |-> <<>>]
               /\ UNCHANGED <<pkg_loaded, pkg_matches, fnc_matches, obj_matches>>
          ELSE /\ log' = [logged |-> TRUE, word |-> word, func |-> func, pipe |-> pipe,
                          refreshed |-> r.refreshed, updated |-> r.updated,
                          warned |-> r.warned]
               /\ result' = [kind |-> IF r.err = "" THEN "complete" ELSE r.err,
                             list |-> r.matches]
               /\ pkg_loaded' = r.pkg_loaded
               /\ pkg_matches' = r.pkg_matches
               /\ fnc_matches' = r.fnc_matches
               /\ obj_matches' = r.obj_matches
       /\ UNCHANGED <<pkg_installed, r_packages, r_globalenv, snip, parse, scan, filt>>

Refresh == \E c \in Contexts : cm_refresh(c)

\* the R session writes another loaded-packages file (library(), detach());
\* the model follows the session up to the last request it makes
RPackages ==
    /\ nreq < MaxRequests
    /\ \E f \in PackagesFiles \ {r_packages} : r_packages' = f
    /\ UNCHANGED <<pkg_loaded, pkg_installed, pkg_matches, fnc_matches, obj_matches,
                   r_globalenv, ctx, log, result, nreq, snip, parse, scan, filt>>

\* the objects of the R session change
RGlobalEnv ==
    /\ nreq < MaxRequests
    /\ \E f \in GlobalEnvFiles \ {r_globalenv} : r_globalenv' = f
    /\ UNCHANGED <<pkg_loaded, pkg_installed, pkg_matches, fnc_matches, obj_matches,
                   r_packages, ctx, log, result, nreq, snip, parse, scan, filt>>

(***************************************************************************)
(* Construction: __init__ and get_all_pkg_matches                          *)
(***************************************************************************)
\* re.search(r'_(\w+)_', filename)[1]: \w+ is greedy and contains '_'
pkg_of_filename(name) ==
    LET i == Min({k \in 1..Len(name) : name[k] = "_"})
        e == Min({k \in i..Len(name) : k = Len(name) \/ name[k + 1] \notin WordChars})
        j == CHOOSE k \in (i + 2)..e :
                 name[k] = "_" /\ \A m \in (k + 1)..e : name[m] # "_"
    IN SubSeq(name, i + 1, j - 1)

RECURSIVE all_to_matches(_)
\* self._pkg_matches after the loop over compfiles
all_to_matches(files) ==
    IF files = <<>> THEN <<>>
    ELSE to_matches(StripAll(files[1].lines)).list \o all_to_matches(Tail(files))

\* the state get_all_pkg_matches leaves for the directory listing dir
Installed(dir) ==
    LET comps == SelectSeq(dir, LAMBDA f : Contains(f.name, <<"o", "m", "n", "i", "l", "s">>))
    IN [k \in 1..Len(comps) |-> create_match(pkg_of_filename(comps[k].name), s_package,
                                              <<>>, <<>>)[1]]

PkgMatches(dir) ==
    all_to_matches(SelectSeq(dir, LAMBDA f : Contains(f.name, <<"o", "m", "n", "i", "l", "s">>)))

NoSnip == [func |-> <<>>, args |-> <<>>, snippet |-> <<>>, done |-> FALSE]
NoParse == [lines |-> <<>>, i |-> 0, cm_list |-> <<>>, status |-> "idle"]
NoScan == [buffer |-> <<>>, numline |-> 0, numcol |-> 0, numl |-> 0, no_pipe |-> 0,
           status |-> "idle", pipe |-> <<>>]
NoFilt == [ncm_matches |-> <<>>, typed |-> <<>>, hide |-> <<>>, rm_typed |-> FALSE,
           after |-> <<>>, kept |-> <<>>, filtered_list |-> <<>>, done |-> FALSE]

Init ==
    /\ pkg_loaded = <<>>
    /\ \E dir \in ListDirs : pkg_installed = Installed(dir) /\ pkg_matches = PkgMatches(dir)
    /\ fnc_matches = <<>>
    /\ obj_matches = <<>>
    /\ r_packages \in PackagesFiles
    /\ r_globalenv \in GlobalEnvFiles
    /\ ctx = NoCtx
    /\ log = NoLog
    /\ result = [kind |-> "init", list |-> <<>>]
    /\ nreq = 0
    /\ snip = NoSnip
    /\ parse = NoParse
    /\ scan = NoScan
    /\ filt = NoFilt

Next == Refresh \/ RPackages \/ RGlobalEnv

Spec == Init /\ [][Next]_vars

(***************************************************************************)
(* make_func_snippet on its own: every function name and token list        *)
(***************************************************************************)
RECURSIVE SeqsUpTo(_, _)
\* the sequences over S of length 0..n
SeqsUpTo(S, n) ==
    IF n = 0 THEN {<<>>}
    ELSE LET shorter == SeqsUpTo(S, n - 1)
         IN shorter \cup {Append(s, x) : s \in shorter, x \in S}

\* argument tokens as get_func_args returns them
SnipTokens == {<<"a">>, <<"b">>, DOTS, <<".">>, <<"x", SP, "=", SP, "1">>, NO_ARGS}
SnipFuncs == {w_f, <<"f", "o", "o">>}

SourceIdle ==
    /\ pkg_loaded = <<>>
    /\ pkg_installed = <<>>
    /\ pkg_matches = <<>>
    /\ fnc_matches = <<>>
    /\ obj_matches = <<>>
    /\ r_packages = Missing
    /\ r_globalenv = Missing
    /\ ctx = NoCtx
    /\ log = NoLog
    /\ result = [kind |-> "init", list |-> <<>>]
    /\ nreq = 0

SnipInit ==
    /\ SourceIdle
    /\ parse = NoParse
    /\ scan = NoScan
    /\ filt = NoFilt
    /\ \E f \in SnipFuncs, a \in SeqsUpTo(SnipTokens, MaxArgs) \ {<<>>} :
           snip = [func |-> f, args |-> a, snippet |-> <<>>, done |-> FALSE]

MakeSnippet ==
    /\ ~snip.done
    /\ snip' = [snip EXCEPT !.snippet = make_func_snippet(snip.func, snip.args),
                            !.done = TRUE]
    /\ UNCHANGED <<source_vars, parse, scan, filt>>

SnipNext == MakeSnippet

SnipSpec == SnipInit /\ [][SnipNext]_vars

(***************************************************************************)
(* to_matches on its own: the loop over the lines of a listing             *)
(***************************************************************************)
\* lines as to_matches receives them (stripped)
ParseLines ==
    {<<>>,
     <<"a", SEP6, "b">>,
     <<SEP6, SEP6, SEP6, "p", SEP6>>,
     <<"d", SEP6>> \o s_dataframe \o <<SEP6, SEP6, "p", SEP6>>,
     <<"f", SEP6>> \o s_function \o <<SEP6, SEP6, "p", SEP6, "x", TAB, DOTS[1], DOTS[2], DOTS[3]>>,
     <<"g", SEP6>> \o s_function \o <<SEP6, SEP6, "p", SEP6>> \o NO_ARGS}

ParseInit ==
    /\ SourceIdle
    /\ snip = NoSnip
    /\ scan = NoScan
    /\ filt = NoFilt
    /\ \E l \in SeqsUpTo(ParseLines, MaxLines) :
           parse = [lines |-> l, i |-> 0, cm_list |-> <<>>, status |-> "running"]

\* one iteration of `for line in lines`
ParseLine ==
    /\ parse.status = "running"
    /\ parse.i < Len(parse.lines)
    /\ LET p == parse_line(parse.lines[parse.i + 1])
       IN parse' = IF p.ok
                   THEN [parse EXCEPT !.i = @ + 1, !.cm_list = @ \o p.match]
                   ELSE [parse EXCEPT !.status = "IndexError"]
    /\ UNCHANGED <<source_vars, snip, scan, filt>>

\* return cm_list
ParseReturn ==
    /\ parse.status = "running"
    /\ parse.i = Len(parse.lines)
    /\ parse' = [parse EXCEPT !.status = "returned"]
    /\ UNCHANGED <<source_vars, snip, scan, filt>>

ParseNext == ParseLine \/ ParseReturn

ParseSpec == ParseInit /\ [][ParseNext]_vars

(***************************************************************************)
(* get_pipe on its own: the backward scan, one line per step               *)
(***************************************************************************)
MaxBuffer == 3

\* the line the loop of get_pipe reads at buffer index numl (0-based)
scanned_line(buffer, numline, numcol, numl) ==
    LET raw == buffer[numl + 1]
    IN IF numl = numline
       THEN SubSeq(raw, 1, IF numcol < Len(raw) THEN numcol ELSE Len(raw))
       ELSE raw

\* the body of the loop with every line that has no captured identifier
\* counted as a line without pipe operator
scan_step_counting(line, no_pipe) ==
    LET has_pipe == R_PIPE(line)
    IN IF has_pipe.found
       THEN [status |-> "returned", pipe |-> has_pipe.group, no_pipe |-> no_pipe]
       ELSE IF R_LINE(line) \/ no_pipe + 1 = 2
            THEN [status |-> "returned", pipe |-> <<>>, no_pipe |-> no_pipe + 1]
            ELSE [status |-> "running", pipe |-> <<>>, no_pipe |-> no_pipe + 1]

\* the body of the loop of get_pipe for one line: the loop returns (pipe is
\* the value, the empty string is None) or goes on with the counter no_pipe
scan_step(line, no_pipe) ==
    LET has_pipe == R_PIPE(line)
    IN IF Contains(line, PIPE_OP)
       THEN IF has_pipe.found
            THEN [status |-> "returned", pipe |-> has_pipe.group, no_pipe |-> no_pipe]
            ELSE [status |-> "running", pipe |-> <<>>, no_pipe |-> no_pipe]
       ELSE IF R_LINE(line) \/ no_pipe + 1 = 2
            THEN [status |-> "returned", pipe |-> <<>>, no_pipe |-> no_pipe + 1]
            ELSE [status |-> "running", pipe |-> <<>>, no_pipe |-> no_pipe + 1]

l_op == <<SP, "%", ">", "%">>
l_assign == <<"a", "=", "1">>
\* the lines of the buffers: a pipe with its source, a pipe operator with no
\* identifier before it, a plain line, an assignment
PipeLines == {l_pipe, l_op, <<"x">>, l_assign}

\* get_pipe(ctx['lnum'], ctx['col']) on a buffer: lnum and col count from 1
PipeInit ==
    /\ SourceIdle
    /\ snip = NoSnip
    /\ parse = NoParse
    /\ filt = NoFilt
    /\ \E buffer \in SeqsUpTo(PipeLines, MaxBuffer) \ {<<>>} :
       \E numline \in 1..Len(buffer) :
       \E numcol \in 1..(Len(buffer[numline]) + 1) :
           scan = [buffer |-> buffer, numline |-> numline, numcol |-> numcol,
                   numl |-> numline - 1, no_pipe |-> 0, status |-> "running",
                   pipe |-> <<>>]

\* one iteration of `for numl in range(numline-1, -1, -1)`
ScanLine ==
    /\ scan.status = "running"
    /\ scan.numl >= 0
    /\ LET r == scan_step(scanned_line(scan.buffer, scan.numline, scan.numcol, scan.numl),
                          scan.no_pipe)
       IN scan' = [scan EXCEPT !.status = r.status, !.pipe = r.pipe,
                               !.no_pipe = r.no_pipe,
                               !.numl = IF r.status = "running" THEN @ - 1 ELSE @]
    /\ UNCHANGED <<source_vars, snip, parse, filt>>

\* the range is exhausted: the method ends without a return statement
ScanEnd ==
    /\ scan.status = "running"
    /\ scan.numl < 0
    /\ scan' = [scan EXCEPT !.status = "returned", !.pipe = <<>>]
    /\ UNCHANGED <<source_vars, snip, parse, filt>>

PipeNext == ScanLine \/ ScanEnd

PipeSpec == PipeInit /\ [][PipeNext]_vars

\* the loop is sequential code: an iteration that can run does run
PipeLive == PipeSpec /\ WF_vars(PipeNext)

(***************************************************************************)
(* filter_matches on its own: a stored list, a prefix, the two options     *)
(***************************************************************************)
MaxMatches == 3

\* the labels of the stored candidates and the prefixes typed
FilterWords == {w_d, <<"d", "$", "x">>, <<"d", "$", "d", "$", "x">>, <<"d", "x">>, <<"x">>}
FilterTyped == {<<>>, w_d, <<"d", "$">>, <<"x">>}

\* the dicts to_matches builds for session objects with these labels
FilterMatches == {create_match(w, s_numeric, s_globalenv, <<>>)[1] : w \in FilterWords}

FilterInit ==
    /\ SourceIdle
    /\ snip = NoSnip
    /\ parse = NoParse
    /\ scan = NoScan
    /\ \E ncm_matches \in SeqsUpTo(FilterMatches, MaxMatches), typed \in FilterTyped,
          hide \in {<<>>, <<"$">>}, rm_typed \in BOOLEAN :
           filt = [ncm_matches |-> ncm_matches, typed |-> typed, hide |-> hide,
                   rm_typed |-> rm_typed, after |-> ncm_matches, kept |-> <<>>,
                   filtered_list |-> <<>>, done |-> FALSE]

\* filter_matches(ncm_matches, typed, hide, rm_typed): after is the list the
\* caller passed once the call is over, kept the positions of the returned
\* dicts in it, filtered_list the returned dicts
FilterMatchesCall ==
    /\ ~filt.done
    /\ LET f == filter_matches(filt.ncm_matches, filt.typed, filt.hide, filt.rm_typed)
       IN filt' = [filt EXCEPT !.after = f.list, !.kept = f.keep,
                               !.filtered_list = Pick(f.list, f.keep), !.done = TRUE]
    /\ UNCHANGED <<source_vars, snip, parse, scan>>

FilterNext == FilterMatchesCall

FilterSpec == FilterInit /\ [][FilterNext]_vars

(***************************************************************************)
(* Properties                                                              *)
(***************************************************************************)
\* the last step was a completion request that got as far as logging its context
Requested == nreq' = nreq + 1
NoRepeat(s) == \A i, j \in 1..Len(s) : i # j => s[i] # s[j]

\* an entry of the argument part of a result: an argument candidate or the ''
IsArg(m) == m.struct = s_argument \/ m = EmptyStr
\* an entry that comes from the object listing of the session
FromSession(m) == m.pkg = s_globalenv
InsideCall(l) == l.logged /\ l.func \notin {<<>>, s_library, s_require}

\* C1: in a request inside a call of a function other than library/require,
\* the final list is the function's argument candidates (each of them once)
\* followed by the object/function matches when there is no pipe source, and
\* the object/function matches followed by the argument candidates when
\* there is one.
C1_ArgsThenMatches ==
    (InsideCall(log) /\ result.kind = "complete") =>
        \E k \in 0..Len(result.list) :
            LET n == Len(result.list)
                args == IF log.pipe = <<>> THEN SubSeq(result.list, 1, k)
                        ELSE SubSeq(result.list, n - k + 1, n)
                objs == IF log.pipe = <<>> THEN SubSeq(result.list, k + 1, n)
                        ELSE SubSeq(result.list, 1, n - k)
            IN /\ \A i \in 1..Len(args) : IsArg(args[i])
               /\ \A i \in 1..Len(objs) : ~IsArg(objs[i])
               /\ NoRepeat(SelectSeq(args, LAMBDA m : m.struct = s_argument))

\* the session objects under prefix, with the leading prefix removed
StrippedUnder(file, prefix) ==
    LET objs == to_matches(StripAll(file.lines)).list
        under == SelectSeq(objs, LAMBDA m : IsPrefix(prefix, m.word))
    IN [i \in 1..Len(under) |->
           [under[i] EXCEPT !.word = SubSeq(@, Len(prefix) + 1, Len(@))]]

\* C2: in a request with no enclosing function and a pipe source, the object
\* matches of the result are the session objects under pipeSource + "$",
\* stripped of that prefix, and the request does not return without
\* candidates because typedWord is empty.
C2_BarePipeObjects ==
    [][(Requested /\ log'.logged /\ log'.func = <<>> /\ log'.pipe # <<>>) =>
         /\ result'.kind # "return"
         /\ result'.kind = "complete" =>
                SelectSeq(result'.list, FromSession)
                    = StrippedUnder(r_globalenv, log'.pipe \o <<"$">>)]_vars

\* C3: the function-match part of a result is the loaded functions whose
\* label starts with typedWord followed by the installed packages whose label
\* starts with typedWord, each stored candidate once (stated for a typedWord
\* that is not empty).
C3_FunctionMatchesOnce ==
    (log.logged /\ log.refreshed /\ log.word # <<>> /\ result.kind = "complete") =>
        LET part == SelectSeq(result.list, LAMBDA m : ~IsArg(m) /\ ~FromSession(m))
            installed == SelectSeq(pkg_installed, LAMBDA m : IsPrefix(log.word, m.word))
            n == Len(part) - Len(installed)
        IN /\ n >= 0
           /\ SubSeq(part, n + 1, Len(part)) = installed
           /\ \A i \in 1..n : /\ part[i].struct = s_function
                              /\ IsPrefix(log.word, part[i].word)
                              /\ \E k \in 1..Len(fnc_matches) :
                                     /\ fnc_matches[k].src = "pkg"
                                     /\ pkg_matches[fnc_matches[k].i] = part[i]
           /\ NoRepeat(SubSeq(part, 1, n))

\* C4: no sequence of completion requests changes installedPackages or
\* allPackageFunctionsAndObjects: same entries, same order, every entry with
\* the fields it had after startup.
C4_PackagesFrozen ==
    \E dir \in ListDirs : pkg_installed = Installed(dir) /\ pkg_matches = PkgMatches(dir)

\* the function entries of self._fnc_matches
FunctionRefs(refs) == SelectSeq(refs, LAMBDA r : r.src = "pkg")

\* C5: a refresh recomputes loadedFunctions (and logs the update) if and only
\* if the loaded-package set the session reports differs, as a set, from the
\* recorded one; otherwise the function entries of loadedFunctions stay as
\* they were.
C5_RecomputeIffSetDiffers ==
    [][(Requested /\ log'.refreshed) =>
         LET differs == /\ r_packages.present
                        /\ ToSet(StripAll(r_packages.lines)) # ToSet(pkg_loaded)
         IN /\ log'.updated <=> differs
            /\ ~differs => FunctionRefs(fnc_matches') = FunctionRefs(fnc_matches)]_vars

\* a second refresh that saw the recorded set again and recomputed nothing
C5_Witness ==
    /\ nreq = 2
    /\ log.refreshed /\ ~log.updated
    /\ pkg_loaded = <<w_p, w_p>>
    /\ FunctionRefs(fnc_matches) # <<>>

\* the argument candidates of the functions named func in a list of dicts
ArgsIn(ncm_matches, func) ==
    UNION {ToSet(ncm_matches[i].args) :
              i \in {k \in 1..Len(ncm_matches) : ncm_matches[k].word = func}}

\* C6: the object listing is reread before any lookup of the request reads
\* sessionObjects: every argument candidate of an inside-call result belongs
\* to the function in allPackageFunctionsAndObjects or in the listing the
\* session holds at the request.
C6_LookupReadsFreshObjects ==
    [][(Requested /\ InsideCall(log') /\ result'.kind = "complete") =>
         \A i \in 1..Len(result'.list) :
             result'.list[i].struct = s_argument =>
                 result'.list[i] \in
                     ArgsIn(pkg_matches, log'.func)
                     \cup ArgsIn(to_matches(StripAll(r_globalenv.lines)).list, log'.func)]_vars

RECURSIVE FieldNumbers(_)
\* the digits that follow each "${" of a snippet
FieldNumbers(s) ==
    IF Len(s) < 3 THEN <<>>
    ELSE IF s[1] = "$" /\ s[2] = "{" THEN <<s[3]>> \o FieldNumbers(SubSeq(s, 3, Len(s)))
    ELSE FieldNumbers(Tail(s))

\* C7: for a token list that does not start with NO_ARGS, the numbered fields
\* of the template carry 1, 2, ..., k in increasing order.
C7_ContiguousNumbers ==
    (snip.done /\ snip.args[1] # NO_ARGS) =>
        LET nums == FieldNumbers(snip.snippet)
        IN \A i \in 1..Len(nums) : nums[i] = DigitChar(i)

\* the fields make_func_snippet places for args, as the code numbers them
PlacedFields(args) ==
    LET mand == mand_args(args)
        placed == SelectSeq(Indices(Len(mand)),
                            LAMBDA i : ~(Contains(DOTS, mand[i]) /\ i > 1))
    IN [k \in 1..Len(placed) |->
           <<"$", "{">> \o Str(placed[k]) \o <<":">> \o mand[placed[k]] \o <<"}">>]

\* C8: for more than one token, the template is funcName + "(" + the placed
\* fields joined by ", " + ")", also when no token is placed.
C8_TrimsOnlySeparator ==
    (snip.done /\ Len(snip.args) > 1 /\ snip.args[1] # NO_ARGS) =>
        snip.snippet = snip.func \o <<"(">>
                       \o Join(PlacedFields(snip.args), <<",", SP>>) \o <<")">>

\* C9: for exactly one token other than NO_ARGS, the template is
\* funcName(${1:token}) when the token is placed and funcName($1) when not.
C9_SingleToken ==
    (snip.done /\ Len(snip.args) = 1 /\ snip.args[1] # NO_ARGS) =>
        snip.snippet = snip.func \o <<"(">>
                       \o (IF HasChar(snip.args[1], "=") THEN <<"$", "1">>
                           ELSE <<"$", "{", "1", ":">> \o snip.args[1] \o <<"}">>)
                       \o <<")">>

\* the lines of a listing that name a word or a structureKind
NamedLines(lines) ==
    SelectSeq(lines, LAMBDA l : LET parts == Split(l, SEP6)
                                IN parts[1] # <<>> \/ (Len(parts) > 1 /\ parts[2] # <<>>))

\* C10: parsing a listing never fails; a line with empty word and
\* structureKind yields no candidate, every other line at most one, and the
\* lines after it are still parsed.
C10_ParserNeverFails ==
    /\ parse.status # "IndexError"
    /\ Len(parse.cm_list) <= parse.i
    /\ parse.status = "returned" =>
           /\ parse.i = Len(parse.lines)
           /\ Len(parse.cm_list) <= Len(NamedLines(parse.lines))

\* the buffer with the text behind the cursor column removed from the
\* cursor's line (line[0:numcol], numline counting from 1)
CutAtCursor(buffer, numline, numcol) ==
    [buffer EXCEPT ![numline] = SubSeq(@, 1, IF numcol < Len(@) THEN numcol ELSE Len(@))]

\* C11: the detected pipeSource is the one detected with the text of the
\* cursor's line after the cursor column removed: nothing on the cursor line
\* after the cursor column changes it.
C11_CursorLineCut ==
    scan.status = "returned" =>
        scan.pipe = get_pipe(CutAtCursor(scan.buffer, scan.numline, scan.numcol),
                             scan.numline, scan.numcol)

\* the k-th line the scan reads, the cursor line being the first
ReadLine(k) == scanned_line(scan.buffer, scan.numline, scan.numcol, scan.numline - k)
HasOperator(k) == Contains(ReadLine(k), PIPE_OP)
\* lines without pipe operator among the first k lines read
NonPipeLines(k) == Cardinality({j \in 1..k : ~HasOperator(j)})
\* the lines at which the scan gives up, and those with a captured identifier
GivesUp == {k \in 1..scan.numline :
               ~HasOperator(k) /\ (R_LINE(ReadLine(k)) \/ NonPipeLines(k) = 2)}
Captures == {k \in 1..scan.numline : R_PIPE(ReadLine(k)).found}

\* the scan has returned what the first line that stops it says
ScanResult ==
    scan.status = "returned" =>
        IF GivesUp \cup Captures = {}
        THEN scan.pipe = <<>> /\ scan.numl = -1
        ELSE LET k == Min(GivesUp \cup Captures)
             IN /\ scan.numl = scan.numline - k
                /\ scan.pipe = IF k \in Captures THEN R_PIPE(ReadLine(k)).group ELSE <<>>

\* C12: the scan reads the lines upward from the cursor line; it stops with no
\* pipe source at the first line without pipe operator that matches the
\* assignment pattern or at the second line without pipe operator; lines with
\* the operator but no captured identifier are passed without being counted;
\* it returns the identifier of the first line reached that matches the
\* capture pattern; and it always terminates, with no pipe source when the
\* top of the buffer is passed.
C12_ScanStopsAndTerminates ==
    /\ [](ScanResult /\ scan.numl >= -1)
    /\ <>(scan.status = "returned")

\* the scan counted one line, passed an operator-only line and captured d
C12_Witness ==
    /\ scan.status = "returned"
    /\ scan.buffer = <<l_pipe, l_op, <<"x">>>>
    /\ scan.numline = 3
    /\ scan.numl = 0
    /\ scan.no_pipe = 1
    /\ scan.pipe = w_d

\* C13: a refresh that finds no loaded-packages file leaves the recorded
\* loaded packages and the function entries of loadedFunctions as they were,
\* reports no change, and the request hands its candidates to the host.
C13_MissingFileKeepsState ==
    [][(Requested /\ log'.refreshed /\ ~r_packages.present) =>
         /\ pkg_loaded' = pkg_loaded
         /\ FunctionRefs(fnc_matches') = FunctionRefs(fnc_matches)
         /\ ~log'.updated
         /\ result'.kind = "complete"]_vars

\* a refresh without the file after the functions of p were loaded
C13_Witness ==
    /\ nreq = 2
    /\ ~r_packages.present
    /\ log.refreshed /\ log.warned /\ ~log.updated
    /\ pkg_loaded = <<w_p>>
    /\ FunctionRefs(fnc_matches) # <<>>
    /\ result.kind = "complete"

\* C14: filterByPrefix returns the surviving candidates in the relative order
\* they have in its input, and with stripPrefix false every candidate of the
\* input has all its fields as before.
C14_OrderKeptNoMutation ==
    filt.done =>
        /\ \A a, b \in 1..Len(filt.kept) : a < b => filt.kept[a] < filt.kept[b]
        /\ filt.filtered_list = Pick(filt.after, filt.kept)
        /\ ~filt.rm_typed => filt.after = filt.ncm_matches

\* two candidates survived, one between or around them was dropped
C14_Witness ==
    /\ filt.done
    /\ ~filt.rm_typed
    /\ filt.typed = w_d
    /\ Len(filt.kept) = 2
    /\ Len(filt.ncm_matches) = 3
    /\ filt.filtered_list[1] # filt.filtered_list[2]

\* C18: with stripPrefix set, every candidate of the stored input collection
\* has its original label after the call.
C18_StoredLabelsKept ==
    (filt.done /\ filt.rm_typed) =>
        \A i \in 1..Len(filt.ncm_matches) : filt.after[i].word = filt.ncm_matches[i].word

\* C19: with stripPrefix set, prefix + returned label is the original label
\* of every retained candidate.
C19_LeadingPrefixOnly ==
    (filt.done /\ filt.rm_typed) =>
        \A k \in 1..Len(filt.kept) :
            filt.typed \o filt.filtered_list[k].word = filt.ncm_matches[filt.kept[k]].word

\* C15: a function record whose first argument token is NO_ARGS gets the
\* template funcName + "()", and no argument candidate of a function record
\* is labelled NO_ARGS or '...'.
C15_SentinelTokens ==
    [][(parse'.i = parse.i + 1) =>
         LET parts == Split(parse.lines[parse.i + 1], SEP6)
             made == parse'.cm_list[Len(parse'.cm_list)]
         IN (parts[2] = s_function /\ parts[5] # <<>>) =>
                /\ made.word = parts[1]
                /\ get_func_args(parts[5])[1] = NO_ARGS =>
                       made.snippet = parts[1] \o <<"(", ")">>
                /\ \A a \in 1..Len(made.args) : made.args[a].word \notin {NO_ARGS, DOTS}]_vars

\* a listing with f(x, ...) and g() was parsed
C15_Witness ==
    /\ parse.status = "returned"
    /\ Len(parse.cm_list) = 2
    /\ parse.cm_list[1].word = w_f
    /\ Len(parse.cm_list[1].args) = 1
    /\ parse.cm_list[2].word = w_g
    /\ parse.cm_list[2].hasargs
    /\ parse.cm_list[2].args = <<>>
    /\ parse.cm_list[2].snippet = <<"g", "(", ")">>

\* the dicts self._fnc_matches refers to
LoadedFunctions == [k \in 1..Len(fnc_matches) |-> Deref(pkg_matches, fnc_matches[k])]
Named(ncm_matches, func) == \E i \in 1..Len(ncm_matches) : ncm_matches[i].word = func
\* the stored argument candidates of the first candidate labelled func, the
\* single empty placeholder when there is none
StoredArgs(ncm_matches, func) ==
    IF Named(ncm_matches, func)
    THEN ncm_matches[Min({i \in 1..Len(ncm_matches) : ncm_matches[i].word = func})].args
    ELSE <<EmptyStr>>
\* the argument part of an emitted list
ArgPart(list) == SelectSeq(list, IsArg)

\* C16: in a request inside a call of a function other than library/require,
\* when the lookup in loadedFunctions yields at most one result and the
\* session objects hold the function, the argument candidates of the result
\* are those stored with the session's function.
C16_FallsBackToSession ==
    [][(/\ Requested /\ InsideCall(log') /\ result'.kind = "complete"
        /\ Len(StoredArgs(LoadedFunctions, log'.func)) <= 1
        /\ Named(obj_matches, log'.func)) =>
           \A i \in 1..Len(StoredArgs(obj_matches, log'.func)) :
               \E j \in 1..Len(result'.list) :
                   result'.list[j] = StoredArgs(obj_matches, log'.func)[i]]_vars

\* C17: in a request inside a call of a function other than library/require,
\* the argument part of the result is the stored argument candidates of the
\* first loaded function labelled with the function name, in stored order and
\* each once, when it has more than one; and it is the empty placeholder,
\* once, when neither loadedFunctions nor the session objects hold the
\* function.
C17_StoredArgsOnce ==
    [][(Requested /\ InsideCall(log') /\ result'.kind = "complete") =>
         /\ Len(StoredArgs(LoadedFunctions, log'.func)) > 1 =>
                ArgPart(result'.list) = StoredArgs(LoadedFunctions, log'.func)
         /\ (~Named(LoadedFunctions, log'.func) /\ ~Named(obj_matches, log'.func)) =>
                ArgPart(result'.list) = <<EmptyStr>>]_vars

\* the function entries of allPackageFunctionsAndObjects whose package is
\* among the recorded loaded packages
FunctionsOfLoaded ==
    {[src |-> "pkg", i |-> i] :
        i \in {k \in 1..Len(pkg_matches) :
                  /\ pkg_matches[k].struct = s_function
                  /\ pkg_matches[k].pkg \in ToSet(pkg_loaded)}}

\* C20: loadedFunctions holds exactly the function entries of
\* allPackageFunctionsAndObjects whose package is among the recorded loaded
\* packages: no package entry, no entry twice, and none at all when no
\* package is recorded as loaded.
C20_LoadedFunctionsExact ==
    /\ ToSet(fnc_matches) = FunctionsOfLoaded
    /\ NoRepeat(fnc_matches)
    /\ pkg_loaded = <<>> => fnc_matches = <<>>

=============================================================================
